---- MODULE Spec2Model ----
(***************************************************************************)
(* European option pricing and implied-volatility calibration:             *)
(*   BSM, monte_carlo_option_pricing          (main.py)                    *)
(*   black_scholes, implied_volatility,                                    *)
(*   monte_carlo_volatility_smile             (mc_simulation_of_...py)     *)
(*                                                                         *)
(* Floating point numbers are modelled as fixed-point numbers with the     *)
(* IEEE special values the code relies on (numpy arithmetic never raises:  *)
(* x/0 is +-inf, 0/0 is nan, nan compares false with everything).          *)
(***************************************************************************)
EXTENDS Integers, Sequences, FiniteSets, TLC

(***************************************************************************)
(* Floats.  A finite value v stands for v / SCALE.                         *)
(***************************************************************************)
SCALE == 1000000
MaxFin == 1000000000

Fin(n) == [k |-> "fin", v |-> n]
NaN == [k |-> "nan", v |-> 0]
PInf == [k |-> "inf", v |-> 1]
NInf == [k |-> "inf", v |-> -1]
Inf(s) == IF s < 0 THEN NInf ELSE PInf

IsNaN(x) == x.k = "nan"
IsInf(x) == x.k = "inf"
IsFin(x) == x.k = "fin"

AbsI(n) == IF n < 0 THEN -n ELSE n
SgnI(n) == IF n < 0 THEN -1 ELSE IF n > 0 THEN 1 ELSE 0
Sgn(x) == SgnI(x.v)

\* overflow of a finite result to +-inf
Sat(n) == IF AbsI(n) > MaxFin THEN Inf(n) ELSE Fin(n)

Neg(x) == IF IsNaN(x) THEN NaN ELSE [k |-> x.k, v |-> -x.v]
Abs(x) == IF IsNaN(x) THEN NaN ELSE [k |-> x.k, v |-> AbsI(x.v)]

Add(x, y) ==
    IF IsNaN(x) \/ IsNaN(y) THEN NaN
    ELSE IF IsInf(x) /\ IsInf(y) THEN (IF x.v = y.v THEN x ELSE NaN)
    ELSE IF IsInf(x) THEN x
    ELSE IF IsInf(y) THEN y
    ELSE Sat(x.v + y.v)

Sub(x, y) == Add(x, Neg(y))

\* round-to-nearest product of two magnitudes in 32-bit pieces,
\* -1 when the product leaves the finite range
MulParts(a1, a0, b1, b0) ==
    IF a1 > 0 /\ b1 > MaxFin \div a1 THEN -1
    ELSE a1 * b1 + (a1 * b0) \div 1000 + (a0 * b1) \div 1000
         + (((a1 * b0) % 1000) + ((a0 * b1) % 1000) + (a0 * b0 + 500) \div 1000 + 500)
           \div 1000

MulMag(a, b) ==
    IF a = 0 \/ b = 0 THEN 0
    ELSE MulParts(a \div 1000, a % 1000, b \div 1000, b % 1000)

\* the float of sign s and magnitude m, +-inf for a magnitude out of range
Signed(s, m) == IF m < 0 THEN Inf(s) ELSE Sat(s * m)

Mul(x, y) ==
    IF IsNaN(x) \/ IsNaN(y) THEN NaN
    ELSE IF IsInf(x) \/ IsInf(y)
         THEN (IF Sgn(x) * Sgn(y) = 0 THEN NaN ELSE Inf(Sgn(x) * Sgn(y)))
    ELSE Signed(Sgn(x) * Sgn(y), MulMag(AbsI(x.v), AbsI(y.v)))

RECURSIVE FracDigits(_, _, _, _, _)
\* the next digits of r / b (r < b) in the given base, rounded at the end
FracDigits(r, b, base, steps, acc) ==
    IF steps = 0 THEN (IF 2 * r >= b THEN acc + 1 ELSE acc)
    ELSE FracDigits((r * base) % b, b, base, steps - 1, acc * base + (r * base) \div b)

\* round-to-nearest quotient of two magnitudes (b > 0), -1 when out of range
DivMag(a, b) ==
    IF a \div b > MaxFin \div SCALE THEN -1
    ELSE IF b <= 2000000 THEN (a \div b) * SCALE + FracDigits(a % b, b, 1000, 2, 0)
    ELSE IF b <= 200000000 THEN (a \div b) * SCALE + FracDigits(a % b, b, 10, 6, 0)
    ELSE (a \div b) * SCALE + FracDigits((a % b) \div 10, b \div 10, 10, 6, 0)

\* division by a small positive integer
DivInt(x, n) ==
    IF ~IsFin(x) THEN x ELSE Fin(Sgn(x) * ((AbsI(x.v) + n \div 2) \div n))

\* numpy float64 division: never raises
Div(x, y) ==
    IF IsNaN(x) \/ IsNaN(y) THEN NaN
    ELSE IF IsInf(x) /\ IsInf(y) THEN NaN
    ELSE IF IsInf(x) THEN Inf(IF Sgn(y) = 0 THEN x.v ELSE x.v * Sgn(y))
    ELSE IF IsInf(y) THEN Fin(0)
    ELSE IF y.v = 0 THEN (IF x.v = 0 THEN NaN ELSE Inf(x.v))
    ELSE Signed(Sgn(x) * Sgn(y), DivMag(AbsI(x.v), AbsI(y.v)))

\* comparisons: false as soon as one side is nan
Lt(x, y) ==
    IF IsNaN(x) \/ IsNaN(y) THEN FALSE
    ELSE IF IsInf(x) /\ IsInf(y) THEN x.v < y.v
    ELSE IF IsInf(x) THEN x.v < 0
    ELSE IF IsInf(y) THEN y.v > 0
    ELSE x.v < y.v

Le(x, y) == ~IsNaN(x) /\ ~IsNaN(y) /\ ~Lt(y, x)

EqZero(x) == IsFin(x) /\ x.v = 0

Max0(x) == IF IsNaN(x) THEN NaN ELSE IF Lt(x, Fin(0)) THEN Fin(0) ELSE x

RECURSIVE ISqrt(_, _, _)
\* integer square root by bisection
ISqrt(n, lo, hi) ==
    IF lo >= hi THEN lo
    ELSE IF (lo + hi + 1) \div 2 <= n \div ((lo + hi + 1) \div 2)
    THEN ISqrt(n, (lo + hi + 1) \div 2, hi)
    ELSE ISqrt(n, lo, (lo + hi + 1) \div 2 - 1)

RECURSIVE SqrtPolish(_, _, _)
\* Newton steps s <- (s + v/s)/2 on the fixed-point value
SqrtPolish(v, s, steps) ==
    IF steps = 0 \/ s = 0 THEN s
    ELSE SqrtPolish(v, (s + DivMag(v, s) + 1) \div 2, steps - 1)

\* np.sqrt: nan (no exception) below zero
Sqrt(x) ==
    IF IsNaN(x) THEN NaN
    ELSE IF IsInf(x) THEN (IF x.v > 0 THEN PInf ELSE NaN)
    ELSE IF x.v < 0 THEN NaN
    ELSE IF x.v = 0 THEN Fin(0)
    ELSE Fin(SqrtPolish(x.v, ISqrt(x.v, 1, 46340) * 1000, 4))

LN2 == 693147

RECURSIVE ExpTerms(_, _, _, _)
\* acc plus the Taylor terms f^k/k!, ..., f^7/7!, given term = f^k/k!
ExpTerms(f, term, k, acc) ==
    IF k > 7 THEN acc
    ELSE ExpTerms(f, DivInt(Mul(term, f), k + 1), k + 1, Add(acc, term))

\* e^(f) for a finite |f| <= LN2, by its Taylor series
ExpSmall(f) == ExpTerms(f, f, 1, Fin(SCALE))

RECURSIVE Pow2(_, _)
Pow2(x, n) ==
    IF n = 0 \/ ~IsFin(x) \/ x.v = 0 THEN x
    ELSE IF n > 0 THEN Pow2(Add(x, x), n - 1)
    ELSE Pow2(Fin((x.v + 1) \div 2), n + 1)

\* e^(v/SCALE) = 2^n * e^(f) with v = n * LN2 + f
ExpScaled(v, n) ==
    IF n > 40 THEN PInf
    ELSE IF n < -40 THEN Fin(0)
    ELSE Pow2(ExpSmall(Fin(v - n * LN2)), n)

\* np.exp: overflows to inf, underflows to 0
Exp(x) ==
    IF IsNaN(x) THEN NaN
    ELSE IF IsInf(x) THEN (IF x.v > 0 THEN PInf ELSE Fin(0))
    ELSE ExpScaled(x.v, IF x.v >= 0 THEN (x.v + LN2 \div 2) \div LN2
                        ELSE -((-x.v + LN2 \div 2) \div LN2))

RECURSIVE AtanhTerms(_, _, _, _)
\* acc plus the terms y^k/k, ..., y^11/11 of atanh, given pow = y^k
AtanhTerms(y2, pow, k, acc) ==
    IF k > 11 THEN acc
    ELSE AtanhTerms(y2, Mul(pow, y2), k + 2, Add(acc, DivInt(pow, k)))

Atanh(y) == AtanhTerms(Mul(y, y), y, 1, Fin(0))

Twice(x) == Add(x, x)

\* ln of a finite x in [1/2, 2]: 2 atanh((x-1)/(x+1))
LogNear1(x) == Twice(Atanh(Div(Fin(x.v - SCALE), Fin(x.v + SCALE))))

RECURSIVE LogFin(_, _)
LogFin(v, acc) ==
    IF v > 2 * SCALE THEN LogFin((v + 1) \div 2, acc + LN2)
    ELSE IF 2 * v < SCALE THEN LogFin(2 * v, acc - LN2)
    ELSE Add(LogNear1(Fin(v)), Fin(acc))

\* np.log: -inf at 0 and nan below 0 (warnings, no exception)
Log(x) ==
    IF IsNaN(x) THEN NaN
    ELSE IF IsInf(x) THEN (IF x.v > 0 THEN PInf ELSE NaN)
    ELSE IF x.v = 0 THEN NInf
    ELSE IF x.v < 0 THEN NaN
    ELSE LogFin(x.v, 0)

INV_SQRT_2PI == 398942

\* scipy.stats.norm.pdf: exp(-x^2/2)/sqrt(2 pi); underflows to 0 in the tails
Pdf(x) ==
    IF IsNaN(x) THEN NaN
    ELSE IF IsInf(x) THEN Fin(0)
    ELSE Mul(Fin(INV_SQRT_2PI), Exp(Neg(DivInt(Mul(x, x), 2))))

\* upper tail 1 - Phi(x) for a finite x >= 0 (Abramowitz-Stegun 26.2.17)
TailPoly(t) ==
    Mul(t, Add(Fin(319382), Mul(t, Add(Fin(-356564), Mul(t, Add(Fin(1781478),
        Mul(t, Add(Fin(-1821256), Mul(t, Fin(1330274))))))))))

UpperTail(x) ==
    Mul(Pdf(x), TailPoly(Div(Fin(SCALE), Add(Fin(SCALE), Mul(Fin(231642), x)))))

\* scipy.stats.norm.cdf
Cdf(x) ==
    IF IsNaN(x) THEN NaN
    ELSE IF IsInf(x) THEN (IF x.v > 0 THEN Fin(SCALE) ELSE Fin(0))
    ELSE IF x.v >= 0 THEN Sub(Fin(SCALE), UpperTail(x))
    ELSE UpperTail(Neg(x))

(***************************************************************************)
(* Outcomes of a call: a returned value or a raised exception.             *)
(***************************************************************************)
Ok(x) == [kind |-> "ok", val |-> x, msg |-> ""]
Raise(exc, m) == [kind |-> exc, val |-> NaN, msg |-> m]

MSG_TYPE == "Invalid option type. Use 'call' or 'put'."
MSG_VEGA == "Zero Vega encountered, iteration stopped."
MSG_CONV == "Implied volatility did not converge."

HALF == Fin(SCALE \div 2)

\* d1 of both pricers and of the vega expression (S/K already divided)
D1(ratio, T, r, sigma) ==
    Div(Add(Log(ratio), Mul(Add(r, Mul(HALF, Mul(sigma, sigma))), T)),
        Mul(sigma, Sqrt(T)))

\* S / K: Python raises on a zero Python divisor, numpy float64 does not
Ratio(S, K, npK) == Div(S, K)

ZeroDivides(K, npK) == ~npK /\ EqZero(K)

\* lines 34-39 of black_scholes, given d1, sigma*sqrt(T) and exp(-rT)
Formula(S, K, d1, volT, disc, option_type) ==
    LET d2 == Sub(d1, volT)
    IN  IF option_type = "call"
        THEN Ok(Sub(Mul(S, Cdf(d1)), Mul(Mul(K, disc), Cdf(d2))))
        ELSE IF option_type = "put"
        THEN Ok(Sub(Mul(Mul(K, disc), Cdf(Neg(d2))), Mul(S, Cdf(Neg(d1)))))
        ELSE Raise("ValueError", MSG_TYPE)

(***************************************************************************)
(* mc_simulation_of_implied_volatility.py: black_scholes                   *)
(***************************************************************************)
black_scholes(S, K, T, r, sigma, option_type, npK) ==
    IF ZeroDivides(K, npK) THEN Raise("ZeroDivisionError", "division by zero")
    ELSE Formula(S, K, D1(Ratio(S, K, npK), T, r, sigma), Mul(sigma, Sqrt(T)),
                 Exp(Neg(Mul(r, T))), option_type)

\* lines 20-24 of BSM: every OPT other than "call" is priced as a put
FormulaBSM(St, K, d1, volT, disc, OPT) ==
    LET d2 == Sub(d1, volT)
    IN  IF OPT = "call"
        THEN Ok(Sub(Mul(St, Cdf(d1)), Mul(Mul(K, disc), Cdf(d2))))
        ELSE Ok(Add(Neg(Mul(St, Cdf(Neg(d1)))), Mul(Mul(K, disc), Cdf(Neg(d2)))))

(***************************************************************************)
(* main.py: BSM                                                            *)
(***************************************************************************)
BSM(St, K, T, r, sigma, OPT) ==
    IF ZeroDivides(K, FALSE) THEN Raise("ZeroDivisionError", "division by zero")
    ELSE FormulaBSM(St, K,
                    Div(Add(Log(Ratio(St, K, FALSE)),
                            Mul(Add(r, Mul(HALF, Mul(sigma, sigma))), T)),
                        Mul(Sqrt(T), sigma)),
                    Mul(sigma, Sqrt(T)), Exp(Neg(Mul(r, T))), OPT)

(***************************************************************************)
(* np.random: one global generator, advanced by every draw                 *)
(***************************************************************************)
NextRng(s) == (5 * s + 3) % 16

\* the standard normal variate the generator yields in state s
Variate(s) == Fin(((s % 5) - 2) * SCALE)

RECURSIVE DrawN(_, _, _)
\* n draws from state s: the variates and the state left behind
DrawN(s, n, acc) ==
    IF n <= 0 THEN [state |-> s, z |-> acc]
    ELSE DrawN(NextRng(s), n - 1, Append(acc, Variate(NextRng(s))))

RECURSIVE SumSeq(_, _)
SumSeq(xs, j) == IF j > Len(xs) THEN Fin(0) ELSE Add(xs[j], SumSeq(xs, j + 1))

\* np.mean: nan for an empty sample
Mean(xs) == Div(SumSeq(xs, 1), Fin(Len(xs) * SCALE))

(***************************************************************************)
(* main.py: monte_carlo_option_pricing, given the variates Z               *)
(***************************************************************************)
monte_carlo_option_pricing(S0, K, T, r, sigma, Z, option_type) ==
    LET drift == Mul(Sub(r, Mul(HALF, Mul(sigma, sigma))), T)
        ST == [j \in 1..Len(Z) |->
                 Mul(S0, Exp(Add(drift, Mul(Mul(sigma, Z[j]), Sqrt(T)))))]
        payoff == [j \in 1..Len(Z) |->
                     IF option_type = "call" THEN Max0(Sub(ST[j], K))
                     ELSE Max0(Sub(K, ST[j]))]
    IN  IF option_type \notin {"call", "put"}
        THEN Raise("UnboundLocalError", "payoff referenced before assignment")
        ELSE Ok(Mul(Exp(Neg(Mul(r, T))), Mean(payoff)))

(***************************************************************************)
(* mc_simulation_of_implied_volatility.py: implied_volatility              *)
(***************************************************************************)
InitialGuess == 200000
DefaultTol == 10
DefaultMaxIter == 100

Vega(S, K, T, r, sigma, npK) ==
    Mul(Mul(S, Pdf(D1(Ratio(S, K, npK), T, r, sigma))), Sqrt(T))

\* lines 68-80: what one pass does with the price and the vega it computed
\* the pass with the tolerance test ahead of the vega test
DecideToleranceFirst(price, vega, market_price, tol, sigma) ==
    LET diff == Sub(market_price, price.val)
    IN  IF price.kind # "ok" THEN [tag |-> "raise", out |-> price, sigma |-> sigma]
        ELSE IF Lt(Abs(diff), tol)
        THEN [tag |-> "return", out |-> Ok(sigma), sigma |-> sigma]
        ELSE IF EqZero(vega)
        THEN [tag |-> "raise", out |-> Raise("ValueError", MSG_VEGA), sigma |-> sigma]
        ELSE [tag |-> "continue", out |-> Ok(sigma), sigma |-> Add(sigma, Div(diff, vega))]

\* the pass returning sigma one update past the one it tested
DecideReturnUpdated(price, vega, market_price, tol, sigma) ==
    LET diff == Sub(market_price, price.val)
        next == Add(sigma, Div(diff, vega))
    IN  IF price.kind # "ok" THEN [tag |-> "raise", out |-> price, sigma |-> sigma]
        ELSE IF EqZero(vega)
        THEN [tag |-> "raise", out |-> Raise("ValueError", MSG_VEGA), sigma |-> sigma]
        ELSE IF Lt(Abs(diff), tol)
        THEN [tag |-> "return", out |-> Ok(next), sigma |-> sigma]
        ELSE [tag |-> "continue", out |-> Ok(sigma), sigma |-> next]

Decide(price, vega, market_price, tol, sigma) ==
    LET diff == Sub(market_price, price.val)
    IN  IF price.kind # "ok" THEN [tag |-> "raise", out |-> price, sigma |-> sigma]
        ELSE IF EqZero(vega)
        THEN [tag |-> "raise", out |-> Raise("ValueError", MSG_VEGA), sigma |-> sigma]
        ELSE IF Lt(Abs(diff), tol)
        THEN [tag |-> "return", out |-> Ok(sigma), sigma |-> sigma]
        ELSE [tag |-> "continue", out |-> Ok(sigma), sigma |-> Add(sigma, Div(diff, vega))]

\* lines 62-80: one pass of the loop body at the current sigma
SolverStep(S, K, T, r, market_price, option_type, tol, sigma, npK) ==
    Decide(black_scholes(S, K, T, r, sigma, option_type, npK),
           Vega(S, K, T, r, sigma, npK), market_price, tol, sigma)

(***************************************************************************)
(* mc_simulation_of_implied_volatility.py: monte_carlo_volatility_smile    *)
(***************************************************************************)
StrikeCount == 50
VolStd == 50000

\* np.linspace(start, stop, num, endpoint=False)
linspaceOpen(start, stop, num) ==
    [j \in 1..num |->
        Add(start, Div(Mul(Fin((j - 1) * SCALE), Sub(stop, start)), Fin(num * SCALE)))]

\* np.linspace(start, stop, num): start + j * step, the last point set to stop
linspace(start, stop, num) ==
    [j \in 1..num |->
        IF num > 1 /\ j = num THEN stop
        ELSE IF num = 1 THEN start
        ELSE Add(start, Div(Mul(Fin((j - 1) * SCALE), Sub(stop, start)),
                            Fin((num - 1) * SCALE)))]

\* np.random.normal(loc, scale, n) from the standard variates
NormalSample(loc, scale, Z) == [j \in 1..Len(Z) |-> Add(loc, Mul(scale, Z[j]))]

\* the market price averaged over the simulated volatilities of one strike
AvgMarketPrice(S, K, T, r, vols) ==
    Mean([j \in 1..Len(vols) |-> black_scholes(S, K, T, r, vols[j], "call", TRUE).val])

\* a handler catching the non-convergence failure alone
CaughtNonConvergence(res) == res.kind = "ValueError" /\ res.msg = MSG_CONV

\* except ValueError: the exceptions the handler of the loop body catches
Caught(res) == res.kind = "ValueError"

(***************************************************************************)
(* Inputs                                                                  *)
(***************************************************************************)
MaxIter == 3
MaxN == 2
MaxSims == 2
MaxSeed == 1
MaxCalls == 2

\* n ten-thousandths
X(n) == Fin(n * 100)

Types == {"call", "put", "straddle"}
RateSet == {X(0), X(500)}

PricerArgs ==
    [S : {X(-10000), X(0), X(10000)}, K : {X(0), X(8000), X(10000)},
     T : {X(-10000), X(0), X(10000)}, r : RateSet,
     sigma : {X(0), X(2000)}, option_type : Types]

MonteCarloArgs ==
    [S : {X(10000)}, K : {X(10000)}, T : {X(10000)}, r : {X(500)},
     sigma : {X(2000)}, N : 1..MaxN, option_type : Types]

\* market prices offered to the solver: model prices at some volatilities
\* (a round trip), and prices no volatility gives
MarketPrices(S, K, T, r, ty) ==
    {black_scholes(S, K, T, r, v, ty, FALSE).val : v \in {X(1000), X(3500)}}
    \cup {X(3000), NaN}

SolverBase ==
    [S : {X(10000)}, K : {X(0), X(8000), X(10000)},
     T : {X(0), X(1), X(10000)}, r : {X(500)}, option_type : Types,
     tol : {Fin(DefaultTol), X(100)}, max_iter : 0..MaxIter]

SmileArgs ==
    [S : {X(10000)}, T : {X(1), X(10000)}, r : {X(500)},
     base_volatility : {X(500)}, n_simulations : 1..MaxSims]

NoCall == [fn |-> "none"]

(***************************************************************************)
(* State                                                                   *)
(***************************************************************************)
VARIABLES
    rng,            \* state of the global generator np.random
    budget,         \* calls the client may still make
    pc,             \* "idle", "implied_volatility", "smile", "except", "done"
    fn,             \* entry point the client called last
    args,           \* its arguments
    out,            \* outcome of the finished call
    solver,         \* arguments of the running implied_volatility activation
    sigma,          \* implied_volatility: current estimate
    i,              \* implied_volatility: loop counter
    ret,            \* outcome of the last implied_volatility activation
    trail,          \* history: the sigmas the loop body ran at
    nprice,         \* history: price evaluations of the activation
    nvega,          \* history: vega evaluations of the activation
    strike_prices,  \* smile: the strike grid
    implied_vols,   \* smile: the list appended to
    solved,         \* history: per strike, averaged price and solver outcome
    prev            \* history: the previous finished call drawing on np.random

vars == <<rng, budget, pc, fn, args, out, solver, sigma, i, ret, trail, nprice,
          nvega, strike_prices, implied_vols, solved, prev>>

solverVars == <<solver, sigma, i, ret, trail, nprice, nvega>>
smileVars == <<strike_prices, implied_vols, solved>>

Blank ==
    /\ pc = "idle"
    /\ fn = "none"
    /\ args = NoCall
    /\ out = NoCall
    /\ solver = NoCall
    /\ sigma = Fin(InitialGuess)
    /\ i = 0
    /\ ret = NoCall
    /\ trail = <<>>
    /\ nprice = 0
    /\ nvega = 0
    /\ strike_prices = <<>>
    /\ implied_vols = <<>>
    /\ solved = <<>>
    /\ prev = NoCall

Init ==
    /\ rng \in 0..MaxSeed
    /\ budget = 1
    /\ Blank

InitSeq ==
    /\ rng = 0
    /\ budget = MaxCalls
    /\ Blank

DrawsRandom(f) ==
    f \in {"monte_carlo_option_pricing", "monte_carlo_volatility_smile"}

\* a new call of the client; the locals of the call before it are gone
CanCall == pc \in {"idle", "done"} /\ budget > 0

Enter(f, a) ==
    /\ budget' = budget - 1
    /\ fn' = f
    /\ args' = a
    /\ prev' = IF pc = "done" /\ DrawsRandom(fn)
               THEN [fn |-> fn, args |-> args, out |-> out]
               ELSE prev

NoSolver ==
    /\ solver' = NoCall
    /\ sigma' = Fin(InitialGuess)
    /\ i' = 0
    /\ ret' = NoCall
    /\ trail' = <<>>
    /\ nprice' = 0
    /\ nvega' = 0

NoSmile ==
    /\ strike_prices' = <<>>
    /\ implied_vols' = <<>>
    /\ solved' = <<>>

\* line 59: a fresh activation of implied_volatility
Activate(a) ==
    /\ solver' = a
    /\ sigma' = Fin(InitialGuess)
    /\ i' = 0
    /\ ret' = NoCall
    /\ trail' = <<>>
    /\ nprice' = 0
    /\ nvega' = 0
    /\ pc' = "implied_volatility"

(***************************************************************************)
(* The pricers: one call each                                              *)
(***************************************************************************)
CallBSM ==
    /\ CanCall
    /\ \E a \in PricerArgs :
        /\ Enter("BSM", a)
        /\ out' = BSM(a.S, a.K, a.T, a.r, a.sigma, a.option_type)
        /\ pc' = "done"
        /\ NoSolver /\ NoSmile
        /\ UNCHANGED rng

CallBlackScholes ==
    /\ CanCall
    /\ \E a \in PricerArgs :
        /\ Enter("black_scholes", a)
        /\ out' = black_scholes(a.S, a.K, a.T, a.r, a.sigma, a.option_type, FALSE)
        /\ pc' = "done"
        /\ NoSolver /\ NoSmile
        /\ UNCHANGED rng

CallMonteCarlo ==
    /\ CanCall
    /\ \E a \in MonteCarloArgs :
        LET d == DrawN(rng, a.N, <<>>)
        IN  /\ Enter("monte_carlo_option_pricing", a)
            /\ rng' = d.state
            /\ out' = monte_carlo_option_pricing(a.S, a.K, a.T, a.r, a.sigma,
                                                 d.z, a.option_type)
            /\ pc' = "done"
            /\ NoSolver /\ NoSmile

(***************************************************************************)
(* implied_volatility, one loop pass per step                              *)
(***************************************************************************)
CallSolver ==
    /\ CanCall
    /\ \E b \in SolverBase :
        \E mp \in MarketPrices(b.S, IF EqZero(b.K) THEN X(10000) ELSE b.K, b.T, b.r,
                               IF b.option_type = "put" THEN "put" ELSE "call") :
            LET a == [S |-> b.S, K |-> b.K, T |-> b.T, r |-> b.r,
                      market_price |-> mp, option_type |-> b.option_type,
                      tol |-> b.tol, max_iter |-> b.max_iter]
            IN  /\ Enter("implied_volatility", a)
                /\ Activate(a @@ [npK |-> FALSE])
                /\ out' = NoCall
                /\ NoSmile
                /\ UNCHANGED rng

\* the activation ends: to the client, or to the try block of the smile loop
Finish(res) ==
    /\ ret' = res
    /\ IF fn = "implied_volatility"
       THEN out' = res /\ pc' = "done"
       ELSE out' = out /\ pc' = "except"

\* a loop that does not count its passes
AdvanceUncounted(st) ==
    /\ trail' = Append(trail, sigma)
    /\ nprice' = nprice + 1
    /\ nvega' = IF st.tag = "raise" /\ st.out.msg # MSG_VEGA THEN nvega ELSE nvega + 1
    /\ IF st.tag = "continue"
       THEN /\ sigma' = st.sigma
            /\ UNCHANGED <<i, pc, out, ret>>
       ELSE /\ Finish(st.out)
            /\ UNCHANGED <<sigma, i>>

\* the loop goes on with the new sigma, or the activation ends
Advance(st) ==
    /\ trail' = Append(trail, sigma)
    /\ nprice' = nprice + 1
    /\ nvega' = IF st.tag = "raise" /\ st.out.msg # MSG_VEGA THEN nvega ELSE nvega + 1
    /\ IF st.tag = "continue"
       THEN /\ sigma' = st.sigma
            /\ i' = i + 1
            /\ UNCHANGED <<pc, out, ret>>
       ELSE /\ Finish(st.out)
            /\ UNCHANGED <<sigma, i>>

\* lines 61-80: one pass of the loop
SolverIter ==
    /\ pc = "implied_volatility"
    /\ i < solver.max_iter
    /\ Advance(SolverStep(solver.S, solver.K, solver.T, solver.r,
                          solver.market_price, solver.option_type, solver.tol,
                          sigma, solver.npK))
    /\ UNCHANGED <<rng, budget, fn, args, prev, solver, smileVars>>

\* line 83: the loop ran out
SolverExhausted ==
    /\ pc = "implied_volatility"
    /\ i >= solver.max_iter
    /\ Finish(Raise("ValueError", MSG_CONV))
    /\ UNCHANGED <<rng, budget, fn, args, prev, solver, sigma, i, trail, nprice,
                   nvega, smileVars>>

(***************************************************************************)
(* monte_carlo_volatility_smile                                            *)
(***************************************************************************)
\* lines 100-101
CallSmile ==
    /\ CanCall
    /\ \E a \in SmileArgs :
        /\ Enter("monte_carlo_volatility_smile", a)
        /\ strike_prices' = linspace(Mul(a.S, Fin(800000)), Mul(a.S, Fin(1200000)),
                                     StrikeCount)
        /\ implied_vols' = <<>>
        /\ solved' = <<>>
        /\ pc' = "smile"
        /\ out' = NoCall
        /\ NoSolver
        /\ UNCHANGED rng

\* lines 103-118: the next strike, up to the call of implied_volatility
SmileStrike ==
    /\ pc = "smile"
    /\ Len(solved) < Len(strike_prices)
    /\ LET K == strike_prices[Len(solved) + 1]
           d == DrawN(rng, args.n_simulations, <<>>)
           vols == NormalSample(args.base_volatility, Fin(VolStd), d.z)
           avg == AvgMarketPrice(args.S, K, args.T, args.r, vols)
       IN  /\ rng' = d.state
           /\ Activate([S |-> args.S, K |-> K, T |-> args.T, r |-> args.r,
                        market_price |-> avg, option_type |-> "call",
                        tol |-> Fin(DefaultTol), max_iter |-> DefaultMaxIter,
                        npK |-> TRUE])
    /\ UNCHANGED <<budget, fn, args, out, prev, smileVars>>

\* lines 119-122: append the volatility, or nan when the handler catches
SmileCollect ==
    /\ pc = "except"
    /\ solved' = Append(solved, [K |-> solver.K, avg |-> solver.market_price,
                                 res |-> ret])
    /\ IF ret.kind = "ok"
       THEN /\ implied_vols' = Append(implied_vols, ret.val)
            /\ pc' = "smile"
            /\ UNCHANGED out
       ELSE IF Caught(ret)
       THEN /\ implied_vols' = Append(implied_vols, NaN)
            /\ pc' = "smile"
            /\ UNCHANGED out
       ELSE /\ out' = ret
            /\ pc' = "done"
            /\ UNCHANGED implied_vols
    /\ UNCHANGED <<rng, budget, fn, args, prev, strike_prices, solverVars>>

\* line 124
SmileReturn ==
    /\ pc = "smile"
    /\ Len(solved) = Len(strike_prices)
    /\ out' = Ok([strike_prices |-> strike_prices, implied_vols |-> implied_vols])
    /\ pc' = "done"
    /\ UNCHANGED <<rng, budget, fn, args, prev, solverVars, smileVars>>

Next ==
    \/ CallBSM
    \/ CallBlackScholes
    \/ CallMonteCarlo
    \/ CallSolver
    \/ SolverIter
    \/ SolverExhausted
    \/ CallSmile
    \/ SmileStrike
    \/ SmileCollect
    \/ SmileReturn

Spec == Init /\ [][Next]_vars

\* a client making several calls that draw on np.random
NextSeq ==
    \/ CallMonteCarlo
    \/ CallSmile
    \/ SmileStrike
    \/ SmileCollect
    \/ SmileReturn
    \/ SolverIter
    \/ SolverExhausted

SpecSeq == InitSeq /\ [][NextSeq]_vars

(***************************************************************************)
(* Properties                                                              *)
(***************************************************************************)
IsSmile == fn = "monte_carlo_volatility_smile"

\* an activation of implied_volatility has just ended
Ended == pc \in {"done", "except"} /\ solver # NoCall /\ ret # NoCall

Positive(x) == Lt(Fin(0), x)

ValidType(ty) == ty \in {"call", "put"}

Returned == ret.kind = "ok"
ZeroVega == ret.kind = "ValueError" /\ ret.msg = MSG_VEGA
NonConvergence == ret.kind = "ValueError" /\ ret.msg = MSG_CONV
InvalidType(o) == o.kind = "ValueError" /\ o.msg = MSG_TYPE

PriceAt(s) ==
    black_scholes(solver.S, solver.K, solver.T, solver.r, s, solver.option_type,
                  solver.npK)

VegaAt(s) == Vega(solver.S, solver.K, solver.T, solver.r, s, solver.npK)

StepAt(s) ==
    SolverStep(solver.S, solver.K, solver.T, solver.r, solver.market_price,
               solver.option_type, solver.tol, s, solver.npK)

\* C1: whatever the solver does at each strike (converges, zero vega, no
\* convergence), the smile calibration returns normally: a failed strike
\* gets nan, a solved strike its volatility, the loop goes on to the last
\* strike, and no solver failure leaves the call.
C1_SmileSurvivesSolverFailures ==
    IsSmile =>
        /\ Len(implied_vols) = Len(solved)
        /\ \A j \in 1..Len(solved) :
              /\ solved[j].res.kind = "ok" => implied_vols[j] = solved[j].res.val
              /\ solved[j].res.kind # "ok" => IsNaN(implied_vols[j])
        /\ pc = "done" =>
              /\ out.kind = "ok"
              /\ Len(out.val.implied_vols) = StrikeCount

\* a returned curve with a zero-vega strike, a strike that did not converge,
\* and a solved strike after a failed one
C1_Witness ==
    /\ IsSmile /\ pc = "done" /\ out.kind = "ok"
    /\ \E j \in 1..Len(solved) : solved[j].res.msg = MSG_VEGA
    /\ \E j \in 1..Len(solved) : solved[j].res.msg = MSG_CONV
    /\ \E j \in 1..Len(solved) : \E k \in 1..Len(solved) :
          /\ j < k
          /\ solved[j].res.kind # "ok" /\ IsNaN(out.val.implied_vols[j])
          /\ solved[k].res.kind = "ok" /\ IsFin(out.val.implied_vols[k])

\* C2 (as claimed): an option type other than call/put raises the invalid
\* input error from every entry point taking a type (inputs otherwise
\* valid, at least one solver iteration allowed).
C2_InvalidTypeRaises ==
    (/\ pc = "done"
     /\ fn \in {"BSM", "black_scholes", "monte_carlo_option_pricing",
                "implied_volatility"}
     /\ ~ValidType(args.option_type)
     /\ Positive(args.S) /\ Positive(args.K) /\ Positive(args.T)
     /\ fn = "implied_volatility" => args.max_iter > 0)
    => InvalidType(out)

\* C3 (as claimed): a solver call whose inputs drive vega to zero (T at its
\* limit 0, any strike, K = S included) ends with the zero-vega failure,
\* not with non-convergence and not with a value.
C3_ZeroVegaAtZeroMaturity ==
    (/\ pc = "done"
     /\ fn = "implied_volatility"
     /\ ValidType(args.option_type)
     /\ Positive(args.S) /\ Positive(args.K) /\ EqZero(args.T)
     /\ args.max_iter > 0)
    => ZeroVega

C5_NonPositiveInputRaises ==
    (/\ pc = "done"
     /\ fn \in {"BSM", "black_scholes", "implied_volatility"}
     /\ ValidType(args.option_type)
     /\ ~(Positive(args.S) /\ Positive(args.K) /\ Positive(args.T)))
    => out.kind # "ok"

\* the other price of the call/put pair of a finished pricer call
Counterpart(ty) ==
    IF fn = "BSM" THEN BSM(args.S, args.K, args.T, args.r, args.sigma, ty)
    ELSE black_scholes(args.S, args.K, args.T, args.r, args.sigma, ty, FALSE)

\* C6 (as claimed): for all valid inputs (S, K, T > 0, sigma >= 0) the call
\* price minus the put price of either closed-form pricer is
\* S - K*exp(-rT) within tolerance.
C6_CallPutParity ==
    (/\ pc = "done"
     /\ fn \in {"BSM", "black_scholes"}
     /\ args.option_type = "call"
     /\ Positive(args.S) /\ Positive(args.K) /\ Positive(args.T)
     /\ Le(Fin(0), args.sigma))
    => LET put == Counterpart("put")
           forward == Sub(args.S, Mul(args.K, Exp(Neg(Mul(args.r, args.T)))))
       IN  /\ out.kind = "ok" /\ put.kind = "ok"
           /\ Lt(Abs(Sub(Sub(out.val, put.val), forward)), Fin(50))

\* C7 (as claimed): two calls with the same arguments return the same
\* result, whatever was called before or between them.
C7_SameArgumentsSameResult ==
    (pc = "done" /\ prev # NoCall /\ prev.fn = fn /\ prev.args = args)
    => prev.out = out

C9_ReturnedSigmaMeetsTolerance ==
    (Ended /\ Returned) =>
        /\ PriceAt(ret.val).kind = "ok"
        /\ Lt(Abs(Sub(solver.market_price, PriceAt(ret.val).val)), solver.tol)
        /\ ret.val = trail[Len(trail)]
        /\ trail[1] = Fin(InitialGuess)
        /\ \A j \in 1..(Len(trail) - 1) :
              trail[j + 1] =
                  Add(trail[j], Div(Sub(solver.market_price, PriceAt(trail[j]).val),
                                    VegaAt(trail[j])))

\* a sigma returned after at least two updates, away from the initial guess
C9_Witness ==
    /\ Ended /\ Returned
    /\ Len(trail) >= 3
    /\ ret.val # Fin(InitialGuess)

\* C10: the zero-vega check comes first: no sigma is returned from a pass
\* whose vega is zero, no update divides by a zero vega, and a pass with
\* zero vega ends in the zero-vega failure even within the tolerance.
C10_ZeroVegaCheckedFirst ==
    Ended =>
        /\ Returned => ~EqZero(VegaAt(ret.val))
        /\ \A j \in 1..(Len(trail) - 1) : ~EqZero(VegaAt(trail[j]))
        /\ (/\ ~NonConvergence
            /\ PriceAt(sigma).kind = "ok"
            /\ EqZero(VegaAt(sigma))) => ZeroVega

\* the zero-vega failure in a pass whose price is within the tolerance
C10_Witness ==
    /\ Ended /\ ZeroVega
    /\ Positive(solver.S) /\ Positive(solver.K) /\ Positive(solver.T)
    /\ Lt(Abs(Sub(solver.market_price, PriceAt(sigma).val)), solver.tol)
====
